---- MODULE Spec2Model ----
(***************************************************************************)
(* A model of the k8s-metrics-rs scrape / store / serve pipeline.          *)
(*                                                                         *)
(*   k8s-metrics-kubeapi   KubeApi: list_nodes, scrape_node_metrics and    *)
(*                         the two kubelet proxy requests behind it        *)
(*   k8s-metrics-collector MetricsCollector: the scrapes vector and its    *)
(*                         reader, scrapes()                               *)
(*   k8s-metrics-ext       StatusExt::not_found                            *)
(*                                                                         *)
(* The scrape cycle (list, fan out, join, commit) and the lock around the  *)
(* store are described by the design document only: the sources declare    *)
(* the vector and read it, and nothing in them writes it.  Those parts are *)
(* modelled from the document and are marked "design" below.               *)
(***************************************************************************)
EXTENDS Integers, Sequences, FiniteSets, TLC

VARIABLES
    \* ---- MetricsCollector (k8s-metrics-collector/src/lib.rs) ----
    scrapes,      \* MetricsCollector.scrapes : Vec<Scrape>
    \* ---- the store's guard and the scrape cycle (design) ----
    lock,         \* "free", "writer" or the reader holding the store
    cyc,          \* where the scrape cycle is: idle, listing, fetching, committing
    cycles,       \* scrape cycles started so far
    nodeList,     \* the node list of the running cycle
    results,      \* the per-node results joined so far: <<[idx, res], ...>>
    buffer,       \* the entry the cycle built and commits
    rpc,          \* per reader: "idle" or "reading"
    rval,         \* per reader: what latest() returned to it
    \* ---- history of the run (observations, not program state) ----
    log,          \* the entries of the commits that completed, oldest first
    preStore,     \* the store as it was when the running cycle started
    outcome,      \* of the latest cycle: none, running, committed, aborted
    listed,       \* what the cluster answered the running cycle's list call
    replies,      \* per node index of the running cycle: which requests were answered,
                  \* how often the node was asked, whether its kubelet hangs
    shuffled,     \* some fetch of the running cycle completed before an earlier node's
    \* ---- one node fetch on its own (KubeApi::scrape_node_metrics) ----
    f_pc,         \* "start" or "done"
    f_node,       \* the node asked for
    f_world,      \* what the kubelet proxy answers, per request path
    f_trace,      \* the requests made, the lines parsed and the result
    \* ---- one not-found response on its own (StatusExt::not_found) ----
    nf_pc,        \* "start" or "done"
    nf_kind,      \* the resource type K
    nf_name,      \* the name asked for
    nf_out,       \* the Status built
    \* ---- calls of the discovery and lookup functions on their own ----
    a_name,       \* the resource name the caller asks for
    a_namespace,  \* the namespace the caller asks for
    a_kind,       \* the served type the caller asks the descriptor of
    a_now,        \* the clock Time::now() reads
    a_calls,      \* the calls made so far and what each returned
    \* ---- one HTTP request to the server (k8s-metrics-server) ----
    h_pc,         \* "start" or "done"
    h_collector,  \* the server's MetricsCollector and what its cluster answers
    h_req,        \* the request: method and path segments
    h_now,        \* the clock Time::now() reads while the request is served
    h_resp,       \* the response sent
    h_stderr,     \* what the handler wrote to stderr
    \* ---- one reading of a Usage on its own (metrics/v1beta1.rs) ----
    q_pc,         \* "start" or "done"
    q_usage,      \* the Usage read: its cpu and memory Quantity texts
    q_made,       \* how each text was formatted, when it was formatted from a number
    q_out,        \* the accessor called and what it returned
    \* ---- one MetricValue built on its own (custom_metrics/v1beta2.rs) ----
    mv_pc,        \* "start" or "done"
    mv_in,        \* the type M, the metric name, the namespace and the object
    mv_out        \* the constructor called, the reference it was given, its result

vars == << scrapes, lock, cyc, cycles, nodeList, results, buffer, rpc, rval,
           log, preStore, outcome, listed, replies, shuffled,
           f_pc, f_node, f_world, f_trace,
           nf_pc, nf_kind, nf_name, nf_out,
           a_name, a_namespace, a_kind, a_now, a_calls,
           h_pc, h_collector, h_req, h_now, h_resp, h_stderr,
           q_pc, q_usage, q_made, q_out,
           mv_pc, mv_in, mv_out >>

storeVars == << scrapes, lock, cyc, cycles, nodeList, results, buffer, rpc, rval,
                log, preStore, outcome, listed, replies, shuffled >>
fetchVars == << f_pc, f_node, f_world, f_trace >>
statusVars == << nf_pc, nf_kind, nf_name, nf_out >>
apiVars == << a_name, a_namespace, a_kind, a_now, a_calls >>

httpVars == << h_pc, h_collector, h_req, h_now, h_resp, h_stderr >>
qtyVars == << q_pc, q_usage, q_made, q_out >>
mvVars == << mv_pc, mv_in, mv_out >>


-----------------------------------------------------------------------------
(* Bounds of the model.                                                    *)

MaxCycles == 2
NumReaders == 2
MaxTextLen == 3
MaxCalls == 2
MaxQty == 20

Nodes == {"n1", "n2", "n3"}
Readers == 1..NumReaders

-----------------------------------------------------------------------------
(* Results.  kube::Result<T>: Ok(value) or Err(kube::Error).               *)

None == [some |-> FALSE]
Some(v) == [some |-> TRUE, value |-> v]

Err(e) == [ok |-> FALSE, err |-> e]
OkText(t) == [ok |-> TRUE, text |-> t]

-----------------------------------------------------------------------------
(* Text.  A response body is a sequence of pieces: the newline, or a run   *)
(* of characters without one.  str::lines() cuts the body at the newlines, *)
(* joins the pieces between two cuts and drops the empty tail that a       *)
(* final newline leaves.                                                   *)

NL == "\n"

RECURSIVE LinesFrom(_, _, _, _)
LinesFrom(text, i, cur, acc) ==
    IF i > Len(text)
    THEN IF cur = "" THEN acc ELSE Append(acc, cur)
    ELSE IF text[i] = NL
         THEN LinesFrom(text, i + 1, "", Append(acc, cur))
         ELSE LinesFrom(text, i + 1, cur \o text[i], acc)

Lines(text) == LinesFrom(text, 1, "", << >>)

-----------------------------------------------------------------------------
(* The kubelet proxy.  A world says, per request path, what the cluster    *)
(* client answers: Ok(body) or Err(kube::Error).                           *)

\* format!("/api/v1/nodes/{node}/proxy/metrics/cadvisor")
cadvisor_name(node) == "/api/v1/nodes/" \o node \o "/proxy/metrics/cadvisor"

\* format!("/api/v1/nodes/{node}/proxy/metrics/resource")
resource_name(node) == "/api/v1/nodes/" \o node \o "/proxy/metrics/resource"

AllPaths == {cadvisor_name(n) : n \in Nodes} \cup {resource_name(n) : n \in Nodes}

\* The sample line a node's endpoint serves: metric{node="<node>"} value.
SampleLine(node, ep) ==
    IF ep = "cadvisor"
    THEN "container_cpu_usage_seconds_total{node=\"" \o node \o "\"} 1"
    ELSE "node_memory_working_set_bytes{node=\"" \o node \o "\"} 2"

\* A line no exposition grammar accepts.
Junk == "!"

\* The body a healthy endpoint serves in a scrape cycle: the cadvisor body
\* ends in a newline and carries a junk line, the resource body has no
\* final newline.
CannedText(node, ep) ==
    IF ep = "cadvisor"
    THEN << SampleLine(node, ep), NL, Junk, NL >>
    ELSE << SampleLine(node, ep) >>

NodeOfPath(p) == CHOOSE n \in Nodes : p \in {cadvisor_name(n), resource_name(n)}

CannedWorld ==
    [p \in AllPaths |-> OkText(CannedText(NodeOfPath(p),
                             IF p = cadvisor_name(NodeOfPath(p))
                             THEN "cadvisor" ELSE "resource"))]

\* The world in which `node`'s two endpoints answer c and r.
WorldWith(node, c, r) ==
    [p \in AllPaths |->
        IF p = cadvisor_name(node) THEN c
        ELSE IF p = resource_name(node) THEN r
        ELSE CannedWorld[p]]


\* Every body of at most MaxTextLen pieces an endpoint may serve.

ApiError == Err("Api")

-----------------------------------------------------------------------------
(* prometheus_parse, as KubeApi::scrape_node_metrics calls it.             *)

\* LineInfo::parse: a sample line, an empty line, or a line it ignores.
LineInfo(line) ==
    IF line = "" THEN [kind |-> "empty"]
    ELSE IF \E n \in Nodes : line = SampleLine(n, "cadvisor")
    THEN [kind |-> "sample", metric |-> "container_cpu_usage_seconds_total",
          node |-> (CHOOSE n \in Nodes : line = SampleLine(n, "cadvisor")), value |-> 1]
    ELSE IF \E n \in Nodes : line = SampleLine(n, "resource")
    THEN [kind |-> "sample", metric |-> "node_memory_working_set_bytes",
          node |-> (CHOOSE n \in Nodes : line = SampleLine(n, "resource")), value |-> 2]
    ELSE [kind |-> "ignored"]

IsSample(item) == LineInfo(item.line).kind = "sample"

SampleOf(item) ==
    LET li == LineInfo(item.line)
    IN [metric |-> li.metric, labels |-> [node |-> li.node], value |-> li.value]

\* Scrape::parse(lines): the first Err item ends the parse with that error;
\* sample lines become samples in their order, every other line is passed over.
ScrapeParse(items) ==
    IF \E i \in 1..Len(items) : ~items[i].ok
    THEN Err("Io")
    ELSE LET kept == SelectSeq(items, IsSample)
         IN [ok |-> TRUE,
             scrape |-> [samples |-> [i \in 1..Len(kept) |-> SampleOf(kept[i])]]]

-----------------------------------------------------------------------------
(* KubeApi (k8s-metrics-kubeapi/src/lib.rs).                               *)

\* raw_get: the GET request for `name`, answered by the cluster client.
raw_get(world, name) ==
    IF name \in DOMAIN world THEN world[name] ELSE Err("BuildRequest")

get_node_cadvisor_metrics(world, node) == raw_get(world, cadvisor_name(node))

get_node_resource_metrics(world, node) == raw_get(world, resource_name(node))

\* cadvisor.lines().chain(resource.lines()).map(|line| Ok(line.to_string()))
parser_lines_swapped(cadvisor, resource) ==
    LET ls == Lines(resource) \o Lines(cadvisor)
    IN [i \in 1..Len(ls) |-> [ok |-> TRUE, line |-> ls[i]]]

parser_lines(cadvisor, resource) ==
    LET ls == Lines(cadvisor) \o Lines(resource)
    IN [i \in 1..Len(ls) |-> [ok |-> TRUE, line |-> ls[i]]]

\* .map_err(kube::Error::ReadEvents)
map_err_ReadEvents(r) == IF r.ok THEN r ELSE Err("ReadEvents")

\* A fetch that makes do with the cadvisor body when the resource request fails.
scrape_trace_partial(world, node) ==
    LET cadvisor == get_node_cadvisor_metrics(world, node)
        resource == get_node_resource_metrics(world, node)
    IN IF ~cadvisor.ok
       THEN [requests |-> << cadvisor_name(node) >>, input |-> None, result |-> cadvisor]
       ELSE LET lines == parser_lines(cadvisor.text, IF resource.ok THEN resource.text ELSE << >>)
            IN [requests |-> << cadvisor_name(node), resource_name(node) >>,
                input |-> Some(lines),
                result |-> map_err_ReadEvents(ScrapeParse(lines))]

\* A fetch that issues both requests at once and looks at the answers after.
scrape_trace_eager(world, node) ==
    LET cadvisor == get_node_cadvisor_metrics(world, node)
        resource == get_node_resource_metrics(world, node)
        both == << cadvisor_name(node), resource_name(node) >>
    IN IF ~cadvisor.ok THEN [requests |-> both, input |-> None, result |-> cadvisor]
       ELSE IF ~resource.ok THEN [requests |-> both, input |-> None, result |-> resource]
       ELSE LET lines == parser_lines(cadvisor.text, resource.text)
            IN [requests |-> both, input |-> Some(lines),
                result |-> map_err_ReadEvents(ScrapeParse(lines))]

\* scrape_node_metrics with what it did on the way: the requests it made, in
\* order, the lines it handed to the parser (None when it never parsed) and
\* the result it returned.  Each `?` returns the request's error as it is.
scrape_trace(world, node) ==
    LET cadvisor == get_node_cadvisor_metrics(world, node)
    IN IF ~cadvisor.ok
       THEN [requests |-> << cadvisor_name(node) >>, input |-> None, result |-> cadvisor]
       ELSE LET resource == get_node_resource_metrics(world, node)
            IN IF ~resource.ok
               THEN [requests |-> << cadvisor_name(node), resource_name(node) >>,
                     input |-> None, result |-> resource]
               ELSE LET lines == parser_lines(cadvisor.text, resource.text)
                    IN [requests |-> << cadvisor_name(node), resource_name(node) >>,
                        input |-> Some(lines),
                        result |-> map_err_ReadEvents(ScrapeParse(lines))]

scrape_node_metrics(world, node) == scrape_trace(world, node).result

\* list_nodes: list_metadata(lp).await.map(|list| list.items), with the error
\* turned into an empty list.
list_nodes_or_empty(reply) ==
    IF reply.ok THEN [ok |-> TRUE, items |-> reply.list.items]
                ELSE [ok |-> TRUE, items |-> << >>]

\* list_nodes: list_metadata(lp).await.map(|list| list.items)
list_nodes(reply) ==
    IF reply.ok THEN [ok |-> TRUE, items |-> reply.list.items] ELSE reply

\* The node lists the cluster may answer with, each node at most once.
NodeLists ==
    { << >>, << "n1" >>, << "n1", "n2" >>, << "n1", "n2", "n3" >>, << "n3", "n2", "n1" >> }


\* What a node's two endpoints may answer in a scrape cycle.
CycleWorlds(node) ==
    { WorldWith(node, c, r) :
        c \in {ApiError, OkText(CannedText(node, "cadvisor"))},
        r \in {ApiError, OkText(CannedText(node, "resource"))} }

-----------------------------------------------------------------------------
(* MetricsCollector (k8s-metrics-collector/src/lib.rs).                    *)

\* A collector that starts with a default Scrape in its vector.
new_with_default == [scrapes |-> << [samples |-> << >>] >>]

\* MetricsCollector::new: Ok(Self { kubeapi, scrapes: Vec::new() })
new == [scrapes |-> << >>]

\* The oldest element instead of the newest.
latest_first(v) == IF Len(v) = 0 THEN None ELSE Some(v[1])

\* MetricsCollector::scrapes: self.scrapes.last()
latest(v) == IF Len(v) = 0 THEN None ELSE Some(v[Len(v)])

-----------------------------------------------------------------------------
(* The store's guard and the scrape cycle (design, sections 4.4, 4.5, 5).  *)

NoHolder == [kind |-> "none", id |-> 0]
WriterHolds == [kind |-> "writer", id |-> 0]
ReaderHolds(r) == [kind |-> "reader", id |-> r]

\* A read that does not wait for the store to be free.
can_read_always(l) == TRUE

\* A read takes the store only when nobody holds it.
can_read(l) == l = NoHolder

\* A release that leaves the store with its holder.
released_never(l) == l

\* Releasing the store: nobody holds it.
released(l) == NoHolder

\* A node is asked again when its fetch failed.
may_fetch_again(rep) == ~rep.hung /\ (~rep.done \/ (~rep.r /\ rep.n < 2))

\* A node is asked once in a cycle: no retry within the cycle.
may_fetch(rep) == ~rep.hung /\ ~rep.done /\ rep.n = 0

\* A fetch that waits for a hanging kubelet for ever.
timed_out_never(rep) == FALSE

\* The timeout of a node fetch: it ends the wait for a kubelet that hangs.
timed_out(rep) == rep.hung /\ ~rep.done

\* The join keeps the results in the order the fetches completed.
store_result_by_completion(rs, i, r) == Append(rs, [idx |-> i, res |-> r])

\* The join: the results are kept in node-list order, whatever the order
\* the fetches complete in.
store_result(rs, i, r) ==
    LET before == SelectSeq(rs, LAMBDA x : x.idx < i)
        after == SelectSeq(rs, LAMBDA x : x.idx > i)
    IN before \o << [idx |-> i, res |-> r] >> \o after

RECURSIVE ConcatSamples(_, _)
ConcatSamples(rs, k) ==
    IF k > Len(rs) THEN << >>
    ELSE (IF rs[k].res.ok THEN rs[k].res.scrape.samples ELSE << >>)
         \o ConcatSamples(rs, k + 1)

\* The entry of a cycle: every successful node's samples, failed nodes skipped.
join(rs) == [samples |-> ConcatSamples(rs, 1)]

\* An entry half written.
partial(e) == [samples |-> SubSeq(e.samples, 1, Len(e.samples) \div 2)]


StoreInit ==
    /\ scrapes = new.scrapes
    /\ lock = NoHolder
    /\ cyc = "idle"
    /\ cycles = 0
    /\ nodeList = << >>
    /\ results = << >>
    /\ buffer = [samples |-> << >>]
    /\ rpc = [r \in Readers |-> "idle"]
    /\ rval = [r \in Readers |-> None]
    /\ log = << >>
    /\ preStore = << >>
    /\ outcome = "none"
    /\ listed = "none"
    /\ replies = << >>
    /\ shuffled = FALSE

\* The scheduler starts a cycle.
StartCycle ==
    /\ cyc = "idle" /\ cycles < MaxCycles
    /\ cyc' = "listing"
    /\ cycles' = cycles + 1
    /\ nodeList' = << >> /\ results' = << >> /\ replies' = << >> /\ shuffled' = FALSE
    /\ preStore' = scrapes
    /\ outcome' = "running"
    /\ listed' = "none"
    /\ UNCHANGED << scrapes, lock, buffer, rpc, rval, log >>

\* The cycle lists the nodes; a failure of the list call aborts the cycle.
ListNodes ==
    /\ cyc = "listing"
    /\ \E reply \in {ApiError} \cup {[ok |-> TRUE, list |-> [items |-> l]] : l \in NodeLists} :
         LET got == list_nodes(reply)
         IN /\ listed' = IF reply.ok THEN "ok" ELSE "failed"
            /\ IF got.ok
               THEN /\ nodeList' = got.items
                    /\ replies' = [i \in 1..Len(got.items) |-> [c |-> FALSE, r |-> FALSE, done |-> FALSE, n |-> 0, hung |-> FALSE]]
                    /\ cyc' = "fetching"
                    /\ outcome' = outcome
               ELSE /\ cyc' = "idle"
                    /\ outcome' = "aborted"
                    /\ UNCHANGED << nodeList, replies >>
    /\ UNCHANGED << scrapes, lock, cycles, results, buffer, rpc, rval,
                    log, preStore, shuffled >>

\* One node's fetch completes; the fetches of a cycle complete in any order.
FetchNode(i) ==
    /\ cyc = "fetching"
    /\ i \in 1..Len(nodeList) /\ may_fetch(replies[i])
    /\ \E world \in CycleWorlds(nodeList[i]) :
         /\ results' = store_result(results, i, scrape_node_metrics(world, nodeList[i]))
         /\ replies' = [replies EXCEPT ![i] =
                          [c |-> world[cadvisor_name(nodeList[i])].ok,
                           r |-> /\ world[cadvisor_name(nodeList[i])].ok
                                 /\ world[resource_name(nodeList[i])].ok,
                           done |-> TRUE,
                           n |-> replies[i].n + 1,
                           hung |-> FALSE]]
    /\ shuffled' = (shuffled \/ \E j \in 1..(i - 1) : ~replies[j].done)
    /\ UNCHANGED << scrapes, lock, cyc, cycles, nodeList, buffer, rpc, rval,
                    log, preStore, outcome, listed >>

\* One node's kubelet takes the request and never answers it.
FetchHang(i) ==
    /\ cyc = "fetching"
    /\ i \in 1..Len(nodeList) /\ may_fetch(replies[i])
    /\ replies' = [replies EXCEPT ![i].hung = TRUE, ![i].n = replies[i].n + 1]
    /\ UNCHANGED << scrapes, lock, cyc, cycles, nodeList, results, buffer, rpc, rval,
                    log, preStore, outcome, listed, shuffled >>

\* The timeout ends a hanging fetch: the node counts as failed.
FetchTimeout(i) ==
    /\ cyc = "fetching"
    /\ i \in 1..Len(nodeList) /\ timed_out(replies[i])
    /\ results' = store_result(results, i, Err("Timeout"))
    /\ replies' = [replies EXCEPT ![i].done = TRUE]
    /\ shuffled' = (shuffled \/ \E j \in 1..(i - 1) : ~replies[j].done)
    /\ UNCHANGED << scrapes, lock, cyc, cycles, nodeList, buffer, rpc, rval,
                    log, preStore, outcome, listed >>

\* Every fetch is back: the cycle joins the results, takes the store and
\* starts to write the entry.
CommitBegin ==
    /\ cyc = "fetching"
    /\ \A i \in 1..Len(nodeList) : replies[i].done
    /\ lock = NoHolder
    /\ lock' = WriterHolds
    /\ buffer' = join(results)
    /\ scrapes' = Append(scrapes, partial(join(results)))
    /\ cyc' = "committing"
    /\ UNCHANGED << cycles, nodeList, results, rpc, rval,
                    log, preStore, outcome, listed, replies, shuffled >>

\* The entry is written whole and the store is released.
CommitEnd ==
    /\ cyc = "committing"
    /\ scrapes' = [scrapes EXCEPT ![Len(scrapes)] = buffer]
    /\ lock' = released(lock)
    /\ log' = Append(log, buffer)
    /\ cyc' = "idle"
    /\ outcome' = "committed"
    /\ UNCHANGED << cycles, nodeList, results, buffer, rpc, rval,
                    preStore, listed, replies, shuffled >>

\* A handler takes the store and reads the latest entry.
ReadBegin(r) ==
    /\ rpc[r] = "idle"
    /\ can_read(lock)
    /\ lock' = ReaderHolds(r)
    /\ rval' = [rval EXCEPT ![r] = latest(scrapes)]
    /\ rpc' = [rpc EXCEPT ![r] = "reading"]
    /\ UNCHANGED << scrapes, cyc, cycles, nodeList, results, buffer,
                    log, preStore, outcome, listed, replies, shuffled >>

\* The handler releases the store and answers.
ReadEnd(r) ==
    /\ rpc[r] = "reading"
    /\ lock' = IF lock = ReaderHolds(r) THEN released(lock) ELSE lock
    /\ rval' = [rval EXCEPT ![r] = None]
    /\ rpc' = [rpc EXCEPT ![r] = "idle"]
    /\ UNCHANGED << scrapes, cyc, cycles, nodeList, results, buffer,
                    log, preStore, outcome, listed, replies, shuffled >>

-----------------------------------------------------------------------------
(* One node fetch on its own: any node, any two answers.                   *)

Answers(node, ep) ==
    {ApiError} \cup
    {OkText(t) : t \in UNION {[1..k -> {NL, SampleLine(node, ep), Junk}] : k \in 0..MaxTextLen}}


FetchIdle ==
    /\ f_pc = "off" /\ f_node = "n1" /\ f_world = CannedWorld /\ f_trace = [requests |-> << >>, input |-> None, result |-> Err("none")]

FetchInit ==
    /\ f_pc = "start"
    /\ f_node \in Nodes
    /\ f_world \in { WorldWith(f_node, c, r) :
                       c \in Answers(f_node, "cadvisor"), r \in Answers(f_node, "resource") }
    /\ f_trace = [requests |-> << >>, input |-> None, result |-> Err("none")]

\* api.scrape_node_metrics(node).await
ScrapeNode ==
    /\ f_pc = "start"
    /\ f_trace' = scrape_trace(f_world, f_node)
    /\ f_pc' = "done"
    /\ UNCHANGED << f_node, f_world >>

-----------------------------------------------------------------------------
(* StatusExt::not_found (k8s-metrics-ext/src/lib.rs).                      *)

\* The served types, as the discovery document names them, in the group
\* metrics.k8s.io and version v1beta1.
MetricsResource(K) ==
    IF K = "NodeMetrics"
    THEN [KIND |-> "NodeMetrics", URL_PATH_SEGMENT |-> "nodes",
          GROUP |-> "metrics.k8s.io", VERSION |-> "v1beta1"]
    ELSE [KIND |-> "PodMetrics", URL_PATH_SEGMENT |-> "pods",
          GROUP |-> "metrics.k8s.io", VERSION |-> "v1beta1"]

\* Pod, the type of not_found's documented example: a core/v1 resource.
CoreResource(K) ==
    [KIND |-> "Pod", URL_PATH_SEGMENT |-> "pods", GROUP |-> "", VERSION |-> "v1"]

\* K: Resource
Resource(K) == IF K = "Pod" THEN CoreResource(K) ELSE MetricsResource(K)

Kinds == {"Pod", "NodeMetrics", "PodMetrics"}

\* metav1::ListMeta::default()
DefaultListMeta ==
    [continue |-> None, remaining_item_count |-> None,
     resource_version |-> None, self_link |-> None]

\* A not_found that qualifies the kind in the message with the API group.
not_found_qualified(K, name) ==
    LET kind == Resource(K).URL_PATH_SEGMENT
        group == Resource(K).GROUP
        shown == IF group = "" THEN kind ELSE kind \o "." \o group
        message == shown \o " \"" \o name \o "\" not found"
        details == [name |-> Some(name), kind |-> Some(kind)]
    IN [code |-> Some(404),
        details |-> Some(details),
        message |-> Some(message),
        metadata |-> DefaultListMeta,
        reason |-> Some("NotFound"),
        status |-> Some("Failure")]

\* Status::not_found::<K>(name)
not_found(K, name) ==
    LET kind == Resource(K).URL_PATH_SEGMENT
        message == kind \o " \"" \o name \o "\" not found"
        details == [name |-> Some(name), kind |-> Some(kind)]
    IN [code |-> Some(404),
        details |-> Some(details),
        message |-> Some(message),
        metadata |-> DefaultListMeta,
        reason |-> Some("NotFound"),
        status |-> Some("Failure")]

Names ==
    { p \o q : p \in {"", "node-", "pod-", "my", "xyz", "demo-"},
               q \in {"", "1", "5", "pod"} }

StatusIdle ==
    /\ nf_pc = "off" /\ nf_kind = "Pod" /\ nf_name = "" /\ nf_out = None

StatusInit ==
    /\ nf_pc = "start" /\ nf_kind \in Kinds /\ nf_name \in Names /\ nf_out = None

\* A handler answers a missing resource: Status::not_found::<K>(name).
NotFound ==
    /\ nf_pc = "start"
    /\ nf_out' = Some(not_found(nf_kind, nf_name))
    /\ nf_pc' = "done"
    /\ UNCHANGED << nf_kind, nf_name >>

-----------------------------------------------------------------------------
(* Discovery descriptors (k8s-metrics-ext, k8s-metrics-kubeapi) and the    *)
(* collector's lookups (k8s-metrics-collector).                            *)


METRICS_API_GROUP == "metrics.k8s.io"
METRICS_API_VERSION == "v1beta1"

\* metav1::APIResource::default(): the fields api_resource leaves alone.
DefaultAPIResource ==
    [name |-> "", namespaced |-> FALSE, kind |-> "", group |-> None, version |-> None,
     verbs |-> << >>, singular_name |-> "", categories |-> None,
     short_names |-> None, storage_version_hash |-> None]

\* A descriptor that also names the group and the version of K.
api_resource_with_group(K) ==
    [DefaultAPIResource EXCEPT
        !.name = Resource(K).URL_PATH_SEGMENT,
        !.namespaced = (K = "PodMetrics"),
        !.kind = Resource(K).KIND,
        !.group = Some(Resource(K).GROUP),
        !.version = Some(Resource(K).VERSION),
        !.verbs = << "get", "list" >>]

\* <K as APIResourceExt>::api_resource()
api_resource(K) ==
    IF K = "PodMetrics"
    THEN [DefaultAPIResource EXCEPT
            !.name = Resource(K).URL_PATH_SEGMENT,
            !.namespaced = TRUE,
            !.kind = Resource(K).KIND,
            !.verbs = << "get", "list" >>]
    ELSE [DefaultAPIResource EXCEPT
            !.name = Resource(K).URL_PATH_SEGMENT,
            !.namespaced = FALSE,
            !.kind = Resource(K).KIND,
            !.verbs = << "get", "list" >>]

\* <PodMetrics as PodMetricsExt>::api_resource()
pod_metrics_ext_api_resource ==
    [DefaultAPIResource EXCEPT
        !.name = Resource("PodMetrics").URL_PATH_SEGMENT,
        !.namespaced = TRUE,
        !.kind = Resource("PodMetrics").KIND,
        !.group = Some(Resource("PodMetrics").GROUP),
        !.version = Some(Resource("PodMetrics").VERSION)]

\* A resource list with the pods descriptor first.
metrics_api_resource_list_pods_first ==
    [group_version |-> METRICS_API_GROUP \o "/" \o METRICS_API_VERSION,
     resources |-> << api_resource("PodMetrics"), api_resource("NodeMetrics") >>]

\* KubeApi::metrics_api_resource_list, which MetricsCollector's method of the
\* same name returns unchanged.
metrics_api_resource_list ==
    [group_version |-> METRICS_API_GROUP \o "/" \o METRICS_API_VERSION,
     resources |-> << api_resource("NodeMetrics"), api_resource("PodMetrics") >>]

\* mock::node(name); t1 and t2 are its two readings of Time::now().
mock_node(name, t1, t2) ==
    [metadata |-> [name |-> Some(name), namespace |-> None,
                   creation_timestamp |-> Some(t1)],
     timestamp |-> t2,
     window |-> 30,
     usage |-> [cpu |-> "100m", memory |-> "200Mi"]]

\* mock::pod(name, namespace)
mock_pod(name, namespace, t1, t2) ==
    [metadata |-> [name |-> Some(name), namespace |-> Some(namespace),
                   creation_timestamp |-> Some(t1)],
     timestamp |-> t2,
     window |-> 30,
     containers |-> << [name |-> "web-server",
                        usage |-> [cpu |-> "75m", memory |-> "128Mi"]] >>]

\* A lookup that finds every node.
node_always(name, t1, t2) == Some(mock_node(name, t1, t2))

\* MetricsCollector::node(name)
node(name, t1, t2) ==
    IF name # "node-5" THEN Some(mock_node(name, t1, t2)) ELSE None

\* A lookup that misses "xyz" in the default namespace only.
pod_by_namespace(name, namespace, t1, t2) ==
    IF ~(name = "xyz" /\ namespace = "default")
    THEN Some(mock_pod(name, namespace, t1, t2)) ELSE None

\* MetricsCollector::pod(name, namespace)
pod(name, namespace, t1, t2) ==
    IF name # "xyz" THEN Some(mock_pod(name, namespace, t1, t2)) ELSE None


ApiIdle ==
    /\ a_name = "" /\ a_namespace = "default" /\ a_kind = "NodeMetrics"
    /\ a_now = 0 /\ a_calls = << >>

ApiInit ==
    /\ a_name \in Names /\ a_namespace \in {"default", "kube-system", "xyz"}
    /\ a_kind \in {"NodeMetrics", "PodMetrics"}
    /\ a_now = 0 /\ a_calls = << >>

\* The two readings of the clock one call makes: time does not run backwards.
Readings == { t \in (a_now..(a_now + 1)) \X (a_now..(a_now + 1)) : t[1] <= t[2] }

Called(op, out) == a_calls' = Append(a_calls, [op |-> op, out |-> out])

\* K::api_resource()
CallApiResource ==
    /\ Len(a_calls) < MaxCalls
    /\ Called("api_resource", api_resource(a_kind))
    /\ UNCHANGED << a_name, a_namespace, a_kind, a_now >>

\* <PodMetrics as PodMetricsExt>::api_resource()
CallPodMetricsExt ==
    /\ Len(a_calls) < MaxCalls
    /\ Called("PodMetricsExt::api_resource", pod_metrics_ext_api_resource)
    /\ UNCHANGED << a_name, a_namespace, a_kind, a_now >>

\* collector.metrics_api_resource_list()
CallResourceList ==
    /\ Len(a_calls) < MaxCalls
    /\ Called("metrics_api_resource_list", metrics_api_resource_list)
    /\ UNCHANGED << a_name, a_namespace, a_kind, a_now >>

\* collector.node(name)
CallNode ==
    /\ Len(a_calls) < MaxCalls
    /\ \E t \in Readings :
        /\ Called("node", node(a_name, t[1], t[2]))
        /\ a_now' = t[2]
    /\ UNCHANGED << a_name, a_namespace, a_kind >>

\* collector.pod(name, namespace)
CallPod ==
    /\ Len(a_calls) < MaxCalls
    /\ \E t \in Readings :
        /\ Called("pod", pod(a_name, a_namespace, t[1], t[2]))
        /\ a_now' = t[2]
    /\ UNCHANGED << a_name, a_namespace, a_kind >>

-----------------------------------------------------------------------------
(* The HTTP server (k8s-metrics-server/src/main.rs).                       *)

\* What a list call answers: an error, or at most two members of S, all different.
ListAnswers(S) ==
    { Err(d) : d \in {"connection refused", "pods is forbidden: token abc"} }
        \cup { [ok |-> TRUE, items |-> l] :
                 l \in {<< >>} \cup { << x >> : x \in S } \cup { p \in S \X S : p[1] # p[2] } }

\* MetricsCollector::new(): in demo mode, or connected to a cluster, whose
\* nodes and pods (with or without a namespace and a spec) the list calls answer.
Collectors ==
    LET nodes == { [name |-> Some("n1")], [name |-> Some("n2")] }
        pods == { [name |-> Some("p1"), namespace |-> Some("default"),
                   spec |-> Some([containers |-> << "c1", "c2" >>])],
                  [name |-> Some("p2"), namespace |-> Some("kube-system"), spec |-> None],
                  [name |-> Some("p3"), namespace |-> None,
                   spec |-> Some([containers |-> << "c1" >>])] }
    IN { [client |-> None] }
         \cup { [client |-> Some([nodes |-> n, pods |-> p])] :
                  n \in ListAnswers(nodes), p \in ListAnswers(pods) }

\* ResourceExt::name_any, ResourceExt::namespace
name_any(obj) == IF obj.name.some THEN obj.name.value ELSE ""
unwrap_or_default(opt) == IF opt.some THEN opt.value ELSE ""

RECURSIVE SelectPods(_, _)
SelectPods(items, ns) ==
    IF items = << >> THEN << >>
    ELSE IF Head(items).namespace = Some(ns)
         THEN << Head(items) >> \o SelectPods(Tail(items), ns)
         ELSE SelectPods(Tail(items), ns)

\* Api::<Node>::all(client).list(..)
nodes_api_list(client) == client.nodes

\* Api::<Pod>::all(client).list(..) or Api::<Pod>::namespaced(client, ns).list(..):
\* the API server answers the namespaced call with the pods of the namespace.
pods_api_list(client, namespace) ==
    IF ~client.pods.ok \/ ~namespace.some THEN client.pods
    ELSE [ok |-> TRUE, items |-> SelectPods(client.pods.items, namespace.value)]

NodeMetricsOf(name, now, cpu, memory) ==
    [metadata |-> [name |-> Some(name), namespace |-> None,
                   creation_timestamp |-> Some(now)],
     timestamp |-> now,
     window |-> 30,
     usage |-> [cpu |-> cpu, memory |-> memory]]

ContainerOf(name, cpu, memory) ==
    [name |-> name, usage |-> [cpu |-> cpu, memory |-> memory]]

PodMetricsOf(name, namespace, now, containers) ==
    [metadata |-> [name |-> Some(name), namespace |-> Some(namespace),
                   creation_timestamp |-> Some(now)],
     timestamp |-> now,
     window |-> 30,
     containers |-> containers]

ListOf(items) == [ok |-> TRUE, list |-> [metadata |-> DefaultListMeta, items |-> items]]

\* A collector that answers with the demo nodes when the list call fails.
get_node_metrics_demo_on_error(collector, now) ==
    IF collector.client.some /\ nodes_api_list(collector.client.value).ok
    THEN LET nodes == nodes_api_list(collector.client.value)
         IN ListOf([ i \in DOMAIN nodes.items |->
                       NodeMetricsOf(name_any(nodes.items[i]), now, "100m", "200Mi") ])
    ELSE ListOf(<< NodeMetricsOf("demo-node-1", now, "150m", "512Mi"),
                   NodeMetricsOf("demo-node-2", now, "200m", "1Gi") >>)

\* MetricsCollector::get_node_metrics (the server's collector)
get_node_metrics(collector, now) ==
    IF collector.client.some
    THEN LET nodes == nodes_api_list(collector.client.value)
         IN IF ~nodes.ok THEN nodes
            ELSE ListOf([ i \in DOMAIN nodes.items |->
                            NodeMetricsOf(name_any(nodes.items[i]), now, "100m", "200Mi") ])
    ELSE ListOf(<< NodeMetricsOf("demo-node-1", now, "150m", "512Mi"),
                   NodeMetricsOf("demo-node-2", now, "200m", "1Gi") >>)

ContainersOf(p) ==
    IF p.spec.some
    THEN [ i \in DOMAIN p.spec.value.containers |->
             ContainerOf(p.spec.value.containers[i], "50m", "100Mi") ]
    ELSE << >>

\* MetricsCollector::get_pod_metrics(namespace)
get_pod_metrics(collector, namespace, now) ==
    IF collector.client.some
    THEN LET pods == pods_api_list(collector.client.value, namespace)
         IN IF ~pods.ok THEN pods
            ELSE ListOf([ i \in DOMAIN pods.items |->
                            PodMetricsOf(name_any(pods.items[i]),
                                         unwrap_or_default(pods.items[i].namespace),
                                         now, ContainersOf(pods.items[i])) ])
    ELSE LET demo_namespace == IF namespace.some THEN namespace.value ELSE "default"
         IN ListOf(<< PodMetricsOf("demo-pod-1", demo_namespace, now,
                                   << ContainerOf("app-container", "25m", "64Mi"),
                                      ContainerOf("sidecar-container", "10m", "32Mi") >>),
                      PodMetricsOf("demo-pod-2", demo_namespace, now,
                                   << ContainerOf("web-server", "75m", "128Mi") >>) >>)

\* Responses: Json(value), (StatusCode, &str), &str, and a bare status code.
Json(v) == [status |-> 200, content_type |-> "application/json", body |-> v]
Text(code, t) == [status |-> code, content_type |-> "text/plain", body |-> t]
Empty(code) == [status |-> code, content_type |-> "", body |-> ""]

Answer(resp, err) == [response |-> resp, stderr |-> err]

\* The handlers' two arms: Ok(metrics) and Err(e), which prints e and answers
\* with the fixed text.
into_response_leaking(res, what) ==
    IF res.ok THEN Answer(Json(res.list), << >>)
    ELSE Answer(Text(500, res.err), << "Error getting " \o what \o ": " \o res.err >>)

into_response(res, what) ==
    IF res.ok THEN Answer(Json(res.list), << >>)
    ELSE Answer(Text(500, "Internal Server Error"),
                << "Error getting " \o what \o ": " \o res.err >>)

get_node_metrics_handler(collector, now) ==
    into_response(get_node_metrics(collector, now), "node metrics")

get_all_pod_metrics_handler(collector, now) ==
    into_response(get_pod_metrics(collector, None, now), "pod metrics")

get_namespaced_pod_metrics_handler(namespace, collector, now) ==
    into_response(get_pod_metrics(collector, Some(namespace), now), "namespaced pod metrics")

\* A discovery document that names the pods resource first.
get_api_discovery_pods_first ==
    Answer(Json([kind |-> "APIResourceList",
                 apiVersion |-> "v1",
                 groupVersion |-> "metrics.k8s.io/v1beta1",
                 resources |->
                    << [name |-> "pods", singularName |-> "", namespaced |-> TRUE,
                        kind |-> "PodMetrics", verbs |-> << "get", "list" >>],
                       [name |-> "nodes", singularName |-> "", namespaced |-> FALSE,
                        kind |-> "NodeMetrics", verbs |-> << "get", "list" >>] >>]),
           << >>)

get_api_discovery ==
    Answer(Json([kind |-> "APIResourceList",
                 apiVersion |-> "v1",
                 groupVersion |-> "metrics.k8s.io/v1beta1",
                 resources |->
                    << [name |-> "nodes", singularName |-> "", namespaced |-> FALSE,
                        kind |-> "NodeMetrics", verbs |-> << "get", "list" >>],
                       [name |-> "pods", singularName |-> "", namespaced |-> TRUE,
                        kind |-> "PodMetrics", verbs |-> << "get", "list" >>] >>]),
           << >>)

health_check == Answer(Text(200, "ok"), << >>)

ApiRoot == << "apis", "metrics.k8s.io", "v1beta1" >>

\* The routes of main, in the order they are added; get(..) serves GET only.
Routed(path) ==
    IF path = ApiRoot \o << "nodes" >> THEN "nodes"
    ELSE IF path = ApiRoot \o << "pods" >> THEN "pods"
    ELSE IF Len(path) = 6 /\ SubSeq(path, 1, 3) = ApiRoot
            /\ path[4] = "namespaces" /\ path[6] = "pods" THEN "namespaced_pods"
    ELSE IF path = ApiRoot THEN "discovery"
    ELSE IF path = << "healthz" >> THEN "healthz"
    ELSE "none"

\* The router: no route answers 404, a route asked with another method 405.
serve(req, collector, now) ==
    LET r == Routed(req.path)
    IN IF r = "none" THEN Answer(Empty(404), << >>)
       ELSE IF req.method # "GET" THEN Answer(Empty(405), << >>)
       ELSE IF r = "nodes" THEN get_node_metrics_handler(collector, now)
       ELSE IF r = "pods" THEN get_all_pod_metrics_handler(collector, now)
       ELSE IF r = "namespaced_pods"
            THEN get_namespaced_pod_metrics_handler(req.path[5], collector, now)
       ELSE IF r = "discovery" THEN get_api_discovery
       ELSE health_check

Requests ==
    LET names == {"n1", "demo-node-1", "p1", "demo-pod-2", "node-5", "xyz"}
        namespaces == {"default", "kube-system"}
        paths ==
            { ApiRoot, ApiRoot \o << "nodes" >>, ApiRoot \o << "pods" >>, << "healthz" >>, << >> }
                \cup { ApiRoot \o << "namespaces", ns, "pods" >> : ns \in namespaces }
                \cup { ApiRoot \o << "nodes", n >> : n \in names }
                \cup { ApiRoot \o << "namespaces", ns, "pods", n >> :
                         ns \in namespaces, n \in names }
    IN [method : {"GET", "POST"}, path : paths]

HttpIdle ==
    /\ h_pc = "off" /\ h_collector = [client |-> None]
    /\ h_req = [method |-> "GET", path |-> << >>] /\ h_now = 0
    /\ h_resp = Empty(0) /\ h_stderr = << >>

HttpInit ==
    /\ h_pc = "start" /\ h_collector \in Collectors /\ h_req \in Requests
    /\ h_now \in {0, 1} /\ h_resp = Empty(0) /\ h_stderr = << >>

\* The server answers the request.
Serve ==
    /\ h_pc = "start"
    /\ LET a == serve(h_req, h_collector, h_now)
       IN h_resp' = a.response /\ h_stderr' = a.stderr
    /\ h_pc' = "done"
    /\ UNCHANGED << h_collector, h_req, h_now >>

-----------------------------------------------------------------------------
(* Quantities (k8s-metrics/src/metrics/v1beta1.rs).  A Quantity's text is  *)
(* a sequence of characters; a byte count is a sequence of base-1000       *)
(* limbs, lowest first, so that counts beyond 2^31 can be told apart.      *)

DigitChars == << "0", "1", "2", "3", "4", "5", "6", "7", "8", "9" >>
IsDigit(c) == \E d \in DOMAIN DigitChars : DigitChars[d] = c
DigitValue(c) == (CHOOSE d \in DOMAIN DigitChars : DigitChars[d] = c) - 1

\* n.to_string()
RECURSIVE Format(_)
Format(n) ==
    IF n < 10 THEN << DigitChars[n + 1] >>
    ELSE Format(n \div 10) \o << DigitChars[(n % 10) + 1] >>

\* n tenths written with one decimal place, or n written whole.
FormatDec(n, decimals) ==
    IF decimals = 0 THEN Format(n)
    ELSE Format(n \div 10) \o << "." >> \o << DigitChars[(n % 10) + 1] >>

Limb == 1000

\* limbs * m + carry, for a small m
RECURSIVE MulSmall(_, _, _)
MulSmall(limbs, m, carry) ==
    IF limbs = << >>
    THEN (IF carry = 0 THEN << >> ELSE MulSmall(<< carry >>, 1, 0))
    ELSE LET v == Head(limbs) * m + carry
         IN << v % Limb >> \o MulSmall(Tail(limbs), m, v \div Limb)

\* The count the digits spell.
RECURSIVE CountOf(_)
CountOf(digits) ==
    IF digits = << >> THEN << >>
    ELSE MulSmall(CountOf(SubSeq(digits, 1, Len(digits) - 1)), 10,
                  DigitValue(digits[Len(digits)]))

\* count * base^power
RECURSIVE Scale(_, _, _)
Scale(count, base, power) ==
    IF power = 0 THEN count ELSE Scale(MulSmall(count, base, 0), base, power - 1)

\* Without the high limbs that are zero.
RECURSIVE Trim(_)
Trim(limbs) ==
    IF limbs # << >> /\ limbs[Len(limbs)] = 0
    THEN Trim(SubSeq(limbs, 1, Len(limbs) - 1)) ELSE limbs

\* The length of the numeric part: the longest prefix of digits and points.
RECURSIVE NumberLen(_)
NumberLen(q) ==
    IF q # << >> /\ (IsDigit(Head(q)) \/ Head(q) = ".")
    THEN 1 + NumberLen(Tail(q)) ELSE 0

NumberOf(q) == SubSeq(q, 1, NumberLen(q))
SuffixOf(q) == SubSeq(q, NumberLen(q) + 1, Len(q))

Points(t) == { i \in DOMAIN t : t[i] = "." }
IsInteger(t) == t # << >> /\ Points(t) = {}

QuantityParseError == Err("QuantityParseError")
OkValue(v) == [ok |-> TRUE, value |-> v]

RECURSIVE Pow10(_)
Pow10(k) == IF k = 0 THEN 1 ELSE 10 * Pow10(k - 1)

RECURSIVE IntOf(_)
IntOf(digits) ==
    IF digits = << >> THEN 0
    ELSE 10 * IntOf(SubSeq(digits, 1, Len(digits) - 1)) + DigitValue(digits[Len(digits)])

\* Quantity::to_f64: cores, as the fraction num / den.
to_f64(q) ==
    LET t == NumberOf(q)
        sfx == SuffixOf(q)
    IN IF Cardinality(Points(t)) > 1 \/ (\A i \in DOMAIN t : ~IsDigit(t[i])) \/ sfx \notin { << >>, << "m" >> } THEN QuantityParseError
       ELSE LET point == IF Points(t) = {} THEN Len(t) ELSE CHOOSE i \in Points(t) : TRUE
                digits == SelectSeq(t, IsDigit)
                den == Pow10(Len(t) - point)
            IN OkValue([num |-> IntOf(digits),
                        den |-> IF sfx = << "m" >> THEN den * 1000 ELSE den])

BinarySuffixes == << << "K", "i" >>, << "M", "i" >>, << "G", "i" >>, << "T", "i" >> >>
DecimalSuffixes == << << "k" >>, << "M" >>, << "G" >>, << "T" >> >>
IndexIn(list, x) == CHOOSE i \in DOMAIN list : list[i] = x
Among(list, x) == \E i \in DOMAIN list : list[i] = x

\* A to_memory that reads the decimal suffixes as powers of 1024.
to_memory_binary_only(q) ==
    LET t == NumberOf(q)
        sfx == SuffixOf(q)
    IN IF ~IsInteger(t) THEN QuantityParseError
       ELSE IF sfx = << >> THEN OkValue(Trim(CountOf(t)))
       ELSE IF Among(BinarySuffixes, sfx)
            THEN OkValue(Trim(Scale(CountOf(t), 1024, IndexIn(BinarySuffixes, sfx))))
       ELSE IF Among(DecimalSuffixes, sfx)
            THEN OkValue(Trim(Scale(CountOf(t), 1024, IndexIn(DecimalSuffixes, sfx))))
       ELSE QuantityParseError

\* Quantity::to_memory: bytes.
to_memory(q) ==
    LET t == NumberOf(q)
        sfx == SuffixOf(q)
    IN IF ~IsInteger(t) THEN QuantityParseError
       ELSE IF sfx = << >> THEN OkValue(Trim(CountOf(t)))
       ELSE IF Among(BinarySuffixes, sfx)
            THEN OkValue(Trim(Scale(CountOf(t), 1024, IndexIn(BinarySuffixes, sfx))))
       ELSE IF Among(DecimalSuffixes, sfx)
            THEN OkValue(Trim(Scale(CountOf(t), 1000, IndexIn(DecimalSuffixes, sfx))))
       ELSE QuantityParseError

\* Usage::cpu
Usage_cpu(u) == to_f64(u.cpu)

\* A memory accessor that answers zero for a text it cannot parse.
Usage_memory_or_default(u) ==
    IF to_memory(u.memory).ok THEN to_memory(u.memory) ELSE OkValue(<< >>)

\* Usage::memory
Usage_memory(u) == to_memory(u.memory)

\* Container::cpu, Container::memory
Container_cpu(c) == Usage_cpu(c.usage)
Container_memory(c) == Usage_memory(c.usage)

Formatted(n, decimals, suffix) ==
    [text |-> FormatDec(n, decimals) \o suffix,
     made |-> Some([n |-> n, decimals |-> decimals, suffix |-> suffix])]

\* The suffixes the codec knows, and four it does not.
Suffixes ==
    { << >>, << "m" >> }
        \cup { BinarySuffixes[i] : i \in DOMAIN BinarySuffixes }
        \cup { DecimalSuffixes[i] : i \in DOMAIN DecimalSuffixes }
        \cup { << "X", "i" >>, << "m", "m" >>, << "K" >>, << "i" >> }

\* The usage of mock::node: cpu "100m", memory "200Mi".
MockCpu == Formatted(100, 0, << "m" >>)
MockMemory == Formatted(200, 0, << "M", "i" >>)

\* The usages read: one field as mock::node sets it, the other a number
\* formatted with a suffix or a text that is no quantity at all.
UsageInputs ==
    LET numbers == (0..MaxQty) \cup {150, 512, 2048}
        raw == { [text |-> t, made |-> None] :
                   t \in { << >>, << "M", "i" >>, << "1", ".", "2", ".", "3" >>,
                           << "x", "1" >>, << "." >> } }
        cpus == { Formatted(n, d, sfx) : n \in numbers, d \in {0, 1}, sfx \in Suffixes }
        memories == { Formatted(n, 0, sfx) : n \in numbers, sfx \in Suffixes }
    IN { [cpu |-> c, memory |-> MockMemory] : c \in cpus \cup raw }
         \cup { [cpu |-> MockCpu, memory |-> m] : m \in memories \cup raw }


QtyIdle ==
    /\ q_pc = "off"
    /\ q_usage = [cpu |-> MockCpu.text, memory |-> MockMemory.text]
    /\ q_made = [cpu |-> MockCpu.made, memory |-> MockMemory.made]
    /\ q_out = [op |-> "none", res |-> Err("none")]

QtyInit ==
    /\ q_pc = "start"
    /\ \E u \in UsageInputs :
        /\ q_usage = [cpu |-> u.cpu.text, memory |-> u.memory.text]
        /\ q_made = [cpu |-> u.cpu.made, memory |-> u.memory.made]
    /\ q_out = [op |-> "none", res |-> Err("none")]

Read(op, res) ==
    /\ q_pc = "start"
    /\ q_out' = [op |-> op, res |-> res]
    /\ q_pc' = "done"
    /\ UNCHANGED << q_usage, q_made >>

\* usage.cpu(), usage.memory()
ReadUsageCpu == Read("Usage::cpu", Usage_cpu(q_usage))
ReadUsageMemory == Read("Usage::memory", Usage_memory(q_usage))

\* container.cpu(), container.memory()
ReadContainerCpu ==
    Read("Container::cpu", Container_cpu([name |-> "web-server", usage |-> q_usage]))
ReadContainerMemory ==
    Read("Container::memory", Container_memory([name |-> "web-server", usage |-> q_usage]))

-----------------------------------------------------------------------------
(* Custom metric values (custom_metrics/v1beta2.rs).  A MetricValue<M>     *)
(* describes one metric of one object of type M.                           *)

\* M::API_VERSION: the group and version of the type, the version alone in
\* the core group.
API_VERSION(K) ==
    IF Resource(K).GROUP = ""
    THEN Resource(K).VERSION
    ELSE Resource(K).GROUP \o "/" \o Resource(K).VERSION

\* metav1::ObjectMeta::default(), the fields the constructors read or write
DefaultObjectMeta ==
    [name |-> None, namespace |-> None, uid |-> None, resource_version |-> None]

\* corev1::ObjectReference::default()
DefaultObjectReference ==
    [api_version |-> None, field_path |-> None, kind |-> None, name |-> None,
     namespace |-> None, resource_version |-> None, uid |-> None]

\* MetricIdentifier::new(name)
MetricIdentifier_new(name) == [name |-> name, selector |-> None]

\* Some(text), but an empty text counts as absent.
Some_nonempty(text) == IF text = "" THEN None ELSE Some(text)

\* A constructor that leaves empty inputs out of the value.
MetricValue_new_skipping_empty(M, name, namespace, object) ==
    [metadata |-> [DefaultObjectMeta EXCEPT
                      !.name = Some_nonempty(name),
                      !.namespace = Some_nonempty(namespace)],
     described_object |-> [DefaultObjectReference EXCEPT
                      !.name = Some_nonempty(object),
                      !.namespace = Some_nonempty(namespace),
                      !.api_version = Some(API_VERSION(M)),
                      !.kind = Some(Resource(M).KIND)],
     metric |-> MetricIdentifier_new(name),
     timestamp |-> 0,
     window_seconds |-> 0,
     value |-> ""]

\* MetricValue::<M>::new(name, namespace, object); Timestamp::default() is
\* the epoch, i64::default() is 0 and Quantity::default() the empty text.
MetricValue_new(M, name, namespace, object) ==
    [metadata |-> [DefaultObjectMeta EXCEPT
                      !.name = Some(name),
                      !.namespace = Some(namespace)],
     described_object |-> [DefaultObjectReference EXCEPT
                      !.name = Some(object),
                      !.namespace = Some(namespace),
                      !.api_version = Some(API_VERSION(M)),
                      !.kind = Some(Resource(M).KIND)],
     metric |-> MetricIdentifier_new(name),
     timestamp |-> 0,
     window_seconds |-> 0,
     value |-> ""]

\* object_ref::<K>(object)
object_ref(K, object) ==
    [DefaultObjectReference EXCEPT
        !.name = object.metadata.name,
        !.namespace = object.metadata.namespace,
        !.api_version = Some(API_VERSION(K)),
        !.kind = Some(Resource(K).KIND),
        !.uid = object.metadata.uid,
        !.resource_version = object.metadata.resource_version]

\* MetricValue::<M>::with_object_ref(name, object_ref)
with_object_ref(M, name, ref) ==
    [metadata |-> [DefaultObjectMeta EXCEPT
                      !.name = Some(name),
                      !.namespace = ref.namespace],
     described_object |-> ref,
     metric |-> MetricIdentifier_new(name),
     timestamp |-> 0,
     window_seconds |-> 0,
     value |-> ""]

\* A with_object that goes through new() with the object's name and namespace.
with_object_by_name(M, name, object) ==
    MetricValue_new(M, name,
                    unwrap_or_default(object.metadata.namespace),
                    unwrap_or_default(object.metadata.name))

\* MetricValue::<M>::with_object(name, object)
with_object(M, name, object) == with_object_ref(M, name, object_ref(M, object))

MetricValueIdle ==
    /\ mv_pc = "off"
    /\ mv_in = [M |-> "Pod", name |-> "", namespace |-> "", object_name |-> "",
                object |-> [metadata |-> DefaultObjectMeta]]
    /\ mv_out = [op |-> "none"]

MetricValueInit ==
    /\ mv_pc = "start"
    /\ mv_in \in [M : Kinds,
                  name : {"", "cpu_usage"},
                  namespace : {"", "default"},
                  object_name : {"", "test-pod"},
                  object : [metadata : [name : {None, Some("test-pod")},
                                        namespace : {None, Some(""), Some("default")},
                                        uid : {None, Some("12345")},
                                        resource_version : {None, Some("1")}]]]
    /\ mv_out = [op |-> "none"]

\* MetricValue::<M>::new(name, namespace, object)
CallNew ==
    /\ mv_pc = "start"
    /\ mv_out' = [op |-> "new",
                  value |-> MetricValue_new(mv_in.M, mv_in.name, mv_in.namespace,
                                            mv_in.object_name)]
    /\ mv_pc' = "done"
    /\ UNCHANGED mv_in

\* MetricValue::<M>::with_object_ref(name, &object_ref), the reference being
\* one to an object of any type K
CallWithObjectRef ==
    /\ mv_pc = "start"
    /\ \E K \in Kinds :
        mv_out' = [op |-> "with_object_ref",
                   ref |-> object_ref(K, mv_in.object),
                   value |-> with_object_ref(mv_in.M, mv_in.name,
                                             object_ref(K, mv_in.object))]
    /\ mv_pc' = "done"
    /\ UNCHANGED mv_in

\* MetricValue::<M>::with_object(name, &object)
CallWithObject ==
    /\ mv_pc = "start"
    /\ mv_out' = [op |-> "with_object",
                  value |-> with_object(mv_in.M, mv_in.name, mv_in.object)]
    /\ mv_pc' = "done"
    /\ UNCHANGED mv_in

-----------------------------------------------------------------------------

\* The state a specification starts in: the part of the program it is about
\* takes its inputs, every other part is at rest.
InitOf(part) ==
    /\ StoreInit
    /\ IF part = "fetch" THEN FetchInit ELSE FetchIdle
    /\ IF part = "status" THEN StatusInit ELSE StatusIdle
    /\ IF part = "api" THEN ApiInit ELSE ApiIdle
    /\ IF part = "http" THEN HttpInit ELSE HttpIdle
    /\ IF part = "quantity" THEN QtyInit ELSE QtyIdle
    /\ IF part = "metric value" THEN MetricValueInit ELSE MetricValueIdle

Init == InitOf("collector")

Next ==
    \/ StartCycle /\ UNCHANGED << fetchVars, statusVars, apiVars, httpVars, qtyVars, mvVars >>
    \/ ListNodes /\ UNCHANGED << fetchVars, statusVars, apiVars, httpVars, qtyVars, mvVars >>
    \/ (\E i \in DOMAIN nodeList : FetchNode(i)) /\ UNCHANGED << fetchVars, statusVars, apiVars, httpVars, qtyVars, mvVars >>
    \/ (\E i \in DOMAIN nodeList : FetchHang(i)) /\ UNCHANGED << fetchVars, statusVars, apiVars, httpVars, qtyVars, mvVars >>
    \/ (\E i \in DOMAIN nodeList : FetchTimeout(i)) /\ UNCHANGED << fetchVars, statusVars, apiVars, httpVars, qtyVars, mvVars >>
    \/ CommitBegin /\ UNCHANGED << fetchVars, statusVars, apiVars, httpVars, qtyVars, mvVars >>
    \/ CommitEnd /\ UNCHANGED << fetchVars, statusVars, apiVars, httpVars, qtyVars, mvVars >>
    \/ (\E r \in Readers : ReadBegin(r)) /\ UNCHANGED << fetchVars, statusVars, apiVars, httpVars, qtyVars, mvVars >>
    \/ (\E r \in Readers : ReadEnd(r)) /\ UNCHANGED << fetchVars, statusVars, apiVars, httpVars, qtyVars, mvVars >>

Spec == Init /\ [][Next]_vars

\* The scheduling of the collector: a call that can return returns, a timer
\* that is due fires, a handler that reads the store finishes its read, and
\* the store's guard is fair to the writer: a cycle that keeps finding the
\* store free from time to time gets it.
Fairness ==
    /\ WF_vars(ListNodes /\ UNCHANGED << fetchVars, statusVars, apiVars, httpVars, qtyVars, mvVars >>)
    /\ \A i \in 1..Cardinality(Nodes) :
         /\ WF_vars(FetchNode(i) /\ UNCHANGED << fetchVars, statusVars, apiVars, httpVars, qtyVars, mvVars >>)
         /\ WF_vars(FetchTimeout(i) /\ UNCHANGED << fetchVars, statusVars, apiVars, httpVars, qtyVars, mvVars >>)
    /\ SF_vars(CommitBegin /\ UNCHANGED << fetchVars, statusVars, apiVars, httpVars, qtyVars, mvVars >>)
    /\ WF_vars(CommitEnd /\ UNCHANGED << fetchVars, statusVars, apiVars, httpVars, qtyVars, mvVars >>)
    /\ \A r \in Readers :
         WF_vars(ReadEnd(r) /\ UNCHANGED << fetchVars, statusVars, apiVars, httpVars, qtyVars, mvVars >>)

SpecLive == Init /\ [][Next]_vars /\ Fairness

FetchNext == ScrapeNode /\ UNCHANGED << storeVars, statusVars, apiVars, httpVars, qtyVars, mvVars >>

SpecFetch == InitOf("fetch") /\ [][FetchNext]_vars

StatusNext == NotFound /\ UNCHANGED << storeVars, fetchVars, apiVars, httpVars, qtyVars, mvVars >>

SpecStatus == InitOf("status") /\ [][StatusNext]_vars

ApiNext ==
    \/ CallApiResource /\ UNCHANGED << storeVars, fetchVars, statusVars, httpVars, qtyVars, mvVars >>
    \/ CallPodMetricsExt /\ UNCHANGED << storeVars, fetchVars, statusVars, httpVars, qtyVars, mvVars >>
    \/ CallResourceList /\ UNCHANGED << storeVars, fetchVars, statusVars, httpVars, qtyVars, mvVars >>
    \/ CallNode /\ UNCHANGED << storeVars, fetchVars, statusVars, httpVars, qtyVars, mvVars >>
    \/ CallPod /\ UNCHANGED << storeVars, fetchVars, statusVars, httpVars, qtyVars, mvVars >>

SpecApi == InitOf("api") /\ [][ApiNext]_vars

HttpNext == Serve /\ UNCHANGED << storeVars, fetchVars, statusVars, apiVars, qtyVars, mvVars >>

SpecHttp == InitOf("http") /\ [][HttpNext]_vars

QtyNext ==
    \/ ReadUsageCpu /\ UNCHANGED << storeVars, fetchVars, statusVars, apiVars, httpVars, mvVars >>
    \/ ReadUsageMemory /\ UNCHANGED << storeVars, fetchVars, statusVars, apiVars, httpVars, mvVars >>
    \/ ReadContainerCpu /\ UNCHANGED << storeVars, fetchVars, statusVars, apiVars, httpVars, mvVars >>
    \/ ReadContainerMemory /\ UNCHANGED << storeVars, fetchVars, statusVars, apiVars, httpVars, mvVars >>

SpecQuantity == InitOf("quantity") /\ [][QtyNext]_vars

MetricValueNext ==
    \/ CallNew /\ UNCHANGED << storeVars, fetchVars, statusVars, apiVars, httpVars, qtyVars >>
    \/ CallWithObjectRef /\ UNCHANGED << storeVars, fetchVars, statusVars, apiVars, httpVars, qtyVars >>
    \/ CallWithObject /\ UNCHANGED << storeVars, fetchVars, statusVars, apiVars, httpVars, qtyVars >>

SpecMetricValue == InitOf("metric value") /\ [][MetricValueNext]_vars

-----------------------------------------------------------------------------
(* Properties of the store and the scrape cycle (Spec).                    *)

Reading(r) == rpc[r] = "reading"

LastCommitted == IF Len(log) = 0 THEN None ELSE Some(log[Len(log)])

\* C1. Store visibility: whatever a reader gets from latest() is the entry of
\* the most recently completed commit: A after commit(A), B once commit(B)
\* has completed, never an older entry (and None before any commit).
StoreVisibility ==
    \A r \in Readers : Reading(r) => rval[r] = LastCommitted

\* A reader holds B after commit(A) and commit(B), A and B different.
StoreVisibilityWitness ==
    \E r \in Readers :
        /\ Reading(r) /\ Len(log) = 2 /\ log[1] # log[2]
        /\ rval[r] = Some(log[2])

\* C2. A fresh collector has no entry: latest() is None in every state
\* before the first completed commit and Some(entry) in every state after it.
FreshStoreEmpty ==
    /\ lock # WriterHolds => (latest(scrapes).some <=> Len(log) > 0)
    /\ \A r \in Readers : Reading(r) => (rval[r].some <=> Len(log) > 0)

\* A reader is answered None after a cycle ran and failed, no commit so far.
FreshStoreEmptyWitness ==
    \E r \in Readers :
        Reading(r) /\ rval[r] = None /\ cycles > 0 /\ outcome = "aborted"

\* C3. A commit is atomic for the readers: what a reader holds is None or a
\* whole entry, the one committed last or the one being committed, never a
\* half-written one.
ReadsAreWhole ==
    \A r \in Readers :
        Reading(r) =>
            \/ rval[r] = None
            \/ rval[r].some /\ \E k \in 1..Len(log) : rval[r].value = log[k]
            \/ rval[r].some /\ cyc = "committing" /\ rval[r].value = buffer

\* A reader holds the committed entry while the next cycle's fetches run.
ReadsAreWholeWitness ==
    \E r \in Readers :
        /\ Reading(r) /\ rval[r].some /\ Len(rval[r].value.samples) > 1
        /\ cyc = "fetching" /\ \E i \in DOMAIN replies : replies[i].done

Fetched(i) == replies[i].c /\ replies[i].r

SamplesOfNode(e, n) == SelectSeq(e.samples, LAMBDA x : x.labels.node = n)

\* C4. Partial failure: a cycle in which some node fetches fail still commits,
\* and the entry holds the two samples of every node whose fetch succeeded
\* and nothing of a node whose fetch failed; once the nodes are listed no
\* fetch failure aborts the cycle.
PartialFailureAggregation ==
    /\ listed = "ok" => outcome \in {"running", "committed"}
    /\ outcome = "committed" =>
        /\ LastCommitted.some
        /\ \A n \in Nodes :
             LET mine == SamplesOfNode(LastCommitted.value, n)
             IN IF \E i \in DOMAIN nodeList : nodeList[i] = n /\ Fetched(i)
                THEN Len(mine) = 2 ELSE mine = << >>

\* Nodes n1, n2, n3, the fetch of n2 failed: the entry has n1's and n3's data.
PartialFailureWitness ==
    /\ outcome = "committed"
    /\ nodeList = << "n1", "n2", "n3" >>
    /\ Fetched(1) /\ ~Fetched(2) /\ Fetched(3)
    /\ Len(SamplesOfNode(LastCommitted.value, "n1")) = 2
    /\ Len(SamplesOfNode(LastCommitted.value, "n3")) = 2

NodeSamples(n) ==
    << [metric |-> "container_cpu_usage_seconds_total", labels |-> [node |-> n], value |-> 1],
       [metric |-> "node_memory_working_set_bytes", labels |-> [node |-> n], value |-> 2] >>

RECURSIVE InListOrder(_)
InListOrder(i) ==
    IF i > Len(nodeList) THEN << >>
    ELSE (IF Fetched(i) THEN NodeSamples(nodeList[i]) ELSE << >>) \o InListOrder(i + 1)

\* C5. The committed entry lists the nodes' data in node-list order, whatever
\* order the fetches completed in: it is a function of the node list and the
\* per-node results alone.
JoinInNodeListOrder ==
    (cyc = "committing" \/ outcome = "committed") =>
        buffer.samples = InListOrder(1)

\* A cycle committed two nodes' data after its fetches completed out of order.
JoinInNodeListOrderWitness ==
    /\ outcome = "committed" /\ shuffled
    /\ Cardinality({i \in DOMAIN nodeList : Fetched(i)}) > 1
    /\ LastCommitted = Some(buffer)

\* C8. A failed node listing aborts the cycle: nothing is committed, the
\* store is free for the readers, which are answered, and the next cycle can
\* start.
ListFailureAborts ==
    listed = "failed" =>
        /\ outcome = "aborted" /\ cyc = "idle"
        /\ scrapes = preStore /\ Len(log) = Len(preStore)
        /\ lock # WriterHolds
        /\ (cycles < MaxCycles => ENABLED StartCycle)
        /\ \A r \in Readers : (rpc[r] = "idle" /\ lock = NoHolder) => ENABLED ReadBegin(r)

\* After a failed listing a reader is being answered.
ListFailureWitness ==
    /\ listed = "failed" /\ outcome = "aborted"
    /\ \E r \in Readers : Reading(r) /\ rval[r] = LastCommitted

\* C9. A cycle that fails commits nothing and leaves the store as it was:
\* latest() after it returns what it returned before the cycle started.
FailedCycleKeepsEntry ==
    (listed = "failed" /\ cyc = "idle") =>
        /\ latest(scrapes) = latest(preStore)
        /\ \A r \in Readers : Reading(r) => rval[r] = latest(preStore)

\* A cycle failed after an earlier one had committed; a reader gets that entry.
FailedCycleWitness ==
    /\ listed = "failed" /\ cyc = "idle" /\ Len(preStore) > 0
    /\ \E r \in Readers : Reading(r) /\ rval[r] = Some(preStore[Len(preStore)])

-----------------------------------------------------------------------------
(* Properties of one node fetch (SpecFetch).                               *)

CadvisorAnswer == f_world["/api/v1/nodes/" \o f_node \o "/proxy/metrics/cadvisor"]
ResourceAnswer == f_world["/api/v1/nodes/" \o f_node \o "/proxy/metrics/resource"]

\* C6. The node fetch is all or nothing: when the cadvisor request or the
\* resource request fails, the fetch returns an error, nothing was parsed and
\* no scrape built from one payload comes back.
FetchAllOrNothing ==
    (f_pc = "done" /\ ~(CadvisorAnswer.ok /\ ResourceAnswer.ok)) =>
        /\ ~f_trace.result.ok
        /\ "scrape" \notin DOMAIN f_trace.result
        /\ f_trace.input = None

\* The cadvisor request gave a body with a sample and the resource request failed.
FetchAllOrNothingWitness ==
    /\ f_pc = "done" /\ CadvisorAnswer.ok /\ ~ResourceAnswer.ok
    /\ \E i \in DOMAIN CadvisorAnswer.text :
         CadvisorAnswer.text[i] \notin {NL, Junk}
    /\ ~f_trace.result.ok

AsItems(ls) == [i \in 1..Len(ls) |-> [ok |-> TRUE, line |-> ls[i]]]

\* C7. A successful fetch hands the parser the lines of the cadvisor body, in
\* their order, then the lines of the resource body, in their order, the two
\* bodies being the answers to /api/v1/nodes/{node}/proxy/metrics/cadvisor and
\* /api/v1/nodes/{node}/proxy/metrics/resource of the node asked for.
CadvisorThenResource ==
    (f_pc = "done" /\ f_trace.result.ok) =>
        /\ CadvisorAnswer.ok /\ ResourceAnswer.ok
        /\ f_trace.input =
             Some(AsItems(Lines(CadvisorAnswer.text) \o Lines(ResourceAnswer.text)))

\* Both bodies have two lines or more, and the two line sequences differ.
CadvisorThenResourceWitness ==
    /\ f_pc = "done" /\ f_trace.result.ok
    /\ CadvisorAnswer.ok /\ ResourceAnswer.ok
    /\ Len(Lines(CadvisorAnswer.text)) > 1
    /\ Len(Lines(ResourceAnswer.text)) > 1
    /\ Lines(CadvisorAnswer.text) # Lines(ResourceAnswer.text)
    /\ Len(f_trace.result.scrape.samples) > 1

-----------------------------------------------------------------------------
(* Properties of the not-found response (SpecStatus).                      *)

\* C10. Status::not_found::<K>(n) has code 404, status "Failure", reason
\* "NotFound", the message <kind> "<n>" not found with <kind> the kind name of
\* K, and details with name n and that kind.
NotFoundNamesKind ==
    nf_pc = "done" =>
        LET st == nf_out.value
            kind == Resource(nf_kind).KIND
        IN /\ st.code = Some(404)
           /\ st.status = Some("Failure")
           /\ st.reason = Some("NotFound")
           /\ st.message = Some(kind \o " \"" \o nf_name \o "\" not found")
           /\ st.details.some
           /\ st.details.value.name = Some(nf_name)
           /\ st.details.value.kind = Some(kind)

\* C11 as stated: the message names the kind as <kind>.<group> whenever the
\* group of K is not empty, and as the bare <kind> when it is empty.
NotFoundQualifiesByGroup ==
    nf_pc = "done" =>
        LET st == nf_out.value
            kind == st.details.value.kind.value
            group == Resource(nf_kind).GROUP
            shown == IF group = "" THEN kind ELSE kind \o "." \o group
        IN st.message = Some(shown \o " \"" \o nf_name \o "\" not found")

\* C11, amended. The message never carries the API group: for every K, with
\* an empty group or not, it is <k> "<name>" not found, <k> being the string
\* the Status gives as details.kind.
NotFoundMessageUnqualified ==
    nf_pc = "done" =>
        LET st == nf_out.value
            kind == st.details.value.kind.value
        IN st.message = Some(kind \o " \"" \o nf_name \o "\" not found")

\* The response for a pod metrics object, whose group is metrics.k8s.io.
NotFoundMessageUnqualifiedWitness ==
    /\ nf_pc = "done" /\ nf_kind = "PodMetrics" /\ nf_name = "xyz"
    /\ Resource(nf_kind).GROUP = "metrics.k8s.io"
    /\ nf_out.value.message = Some("pods \"xyz\" not found")

-----------------------------------------------------------------------------
(* Properties of the discovery descriptors and the lookups (SpecApi).      *)

CallsOf(op) == { i \in DOMAIN a_calls : a_calls[i].op = op }

ResourceListFixed ==
    \A i \in CallsOf("metrics_api_resource_list") :
        LET l == a_calls[i].out
        IN /\ l.group_version = "metrics.k8s.io/v1beta1"
           /\ Len(l.resources) = 2
           /\ l.resources[1].kind = "NodeMetrics" /\ l.resources[1].name = "nodes"
           /\ l.resources[2].kind = "PodMetrics" /\ l.resources[2].name = "pods"
           /\ \A j \in CallsOf("metrics_api_resource_list") : a_calls[j].out = l

\* The list was asked for twice.
ResourceListFixedWitness ==
    /\ Len(a_calls) = 2
    /\ CallsOf("metrics_api_resource_list") = {1, 2}

\* C16: node(name) is None exactly when name is "node-5"; for any other name
\* it is Some(NodeMetrics) whose metadata.name is the name asked for.
NodeMissingOnlyNode5 ==
    \A i \in CallsOf("node") :
        LET r == a_calls[i].out
        IN /\ ~r.some <=> a_name = "node-5"
           /\ r.some => r.value.metadata.name = Some(a_name)

\* Both cases: the lookup of node-5, and the lookup of another node.
NodeMissingWitness ==
    /\ a_name = "node-5" /\ CallsOf("node") # {}
    /\ \A i \in CallsOf("node") : a_calls[i].out = None

NodeFoundWitness ==
    /\ a_name = "node-1" /\ CallsOf("node") # {}
    /\ \A i \in CallsOf("node") : a_calls[i].out.some

\* C17: pod(name, namespace) is None exactly when name is "xyz", whatever the
\* namespace; for any other name it is Some(PodMetrics) with the name and the
\* namespace asked for and exactly one container, named web-server.
PodMissingOnlyXyz ==
    \A i \in CallsOf("pod") :
        LET r == a_calls[i].out
        IN /\ ~r.some <=> a_name = "xyz"
           /\ r.some =>
                /\ r.value.metadata.name = Some(a_name)
                /\ r.value.metadata.namespace = Some(a_namespace)
                /\ Len(r.value.containers) = 1
                /\ r.value.containers[1].name = "web-server"

\* The lookup of xyz outside the default namespace.
PodMissingWitness ==
    /\ a_name = "xyz" /\ a_namespace = "kube-system" /\ CallsOf("pod") # {}
    /\ \A i \in CallsOf("pod") : a_calls[i].out = None

-----------------------------------------------------------------------------
(* Properties of the HTTP server (SpecHttp).                               *)

SingleNodePath == Len(h_req.path) = 5 /\ SubSeq(h_req.path, 1, 4) = ApiRoot \o << "nodes" >>
SinglePodPath ==
    /\ Len(h_req.path) = 7 /\ SubSeq(h_req.path, 1, 3) = ApiRoot
    /\ h_req.path[4] = "namespaces" /\ h_req.path[6] = "pods"

\* The nodes and the pods the server has metrics of, when its listing works.
KnownNodes ==
    IF ~h_collector.client.some THEN {"demo-node-1", "demo-node-2"}
    ELSE LET l == h_collector.client.value.nodes
         IN IF l.ok THEN { l.items[i].name.value : i \in DOMAIN l.items } ELSE {}

KnownPods(ns) ==
    IF ~h_collector.client.some THEN {"demo-pod-1", "demo-pod-2"}
    ELSE LET l == h_collector.client.value.pods
         IN IF l.ok
            THEN { l.items[i].name.value :
                     i \in { j \in DOMAIN l.items : l.items[j].namespace = Some(ns) } }
            ELSE {}

IsNotFoundStatus(resp, name) ==
    /\ resp.status = 404
    /\ resp.content_type = "application/json"
    /\ resp.body.code = Some(404)
    /\ resp.body.status = Some("Failure")
    /\ resp.body.reason = Some("NotFound")
    /\ resp.body.message.some
    /\ resp.body.details.some
    /\ resp.body.details.value.name = Some(name)
    /\ resp.body.details.value.kind.some

IsSingleObject(resp, name) ==
    /\ resp.status = 200
    /\ resp.content_type = "application/json"
    /\ resp.body.metadata.name = Some(name)

\* C12 as stated: a GET of /nodes/{node} or of /namespaces/{ns}/pods/{pod} is
\* answered with the one NodeMetrics or PodMetrics when the object exists, and
\* with HTTP 404 and a Status body (code, status, reason, message,
\* details.name, details.kind) when it does not.
SingleResourceAnswered ==
    (h_pc = "done" /\ h_req.method = "GET") =>
        /\ SingleNodePath =>
             IF h_req.path[5] \in KnownNodes
             THEN IsSingleObject(h_resp, h_req.path[5])
             ELSE IsNotFoundStatus(h_resp, h_req.path[5])
        /\ SinglePodPath =>
             IF h_req.path[7] \in KnownPods(h_req.path[5])
             THEN IsSingleObject(h_resp, h_req.path[7])
             ELSE IsNotFoundStatus(h_resp, h_req.path[7])

\* What the server does answer such a request with: 404 and no body, whether
\* the object exists or not.
SingleResourceUnrouted ==
    (h_pc = "done" /\ (SingleNodePath \/ SinglePodPath)) => h_resp = Empty(404)

\* The list call the request's handler makes failed.
ListFailed ==
    /\ h_req.method = "GET" /\ h_collector.client.some
    /\ \/ /\ h_req.path = << "apis", "metrics.k8s.io", "v1beta1", "nodes" >>
          /\ ~h_collector.client.value.nodes.ok
       \/ /\ \/ h_req.path = << "apis", "metrics.k8s.io", "v1beta1", "pods" >>
             \/ \E ns \in {"default", "kube-system"} :
                  h_req.path = << "apis", "metrics.k8s.io", "v1beta1", "namespaces", ns, "pods" >>
          /\ ~h_collector.client.value.pods.ok

\* C15: a handler that fails answers 500 with the same fixed text whatever
\* the error was, and the error's text goes to stderr only; no response other
\* than a NotFound Status carries anything about a resource or an error.
ErrorsAreGeneric ==
    h_pc = "done" =>
        /\ ListFailed =>
             /\ h_resp = [status |-> 500, content_type |-> "text/plain",
                          body |-> "Internal Server Error"]
             /\ Len(h_stderr) = 1
        /\ h_resp.status # 200 =>
             \/ h_resp.body \in {"Internal Server Error", ""}
             \/ /\ h_resp.content_type = "application/json"
                /\ h_resp.body.reason = Some("NotFound")

\* A namespaced pod listing failed with an error that names a credential.
ErrorsAreGenericWitness ==
    /\ h_pc = "done" /\ ListFailed
    /\ Len(h_req.path) = 6
    /\ h_collector.client.value.pods = Err("pods is forbidden: token abc")
    /\ h_resp.status = 500

-----------------------------------------------------------------------------
(* Properties of the quantity accessors (SpecQuantity).                    *)

CpuRead == q_out.op \in {"Usage::cpu", "Container::cpu"}
MemoryRead == q_out.op \in {"Usage::memory", "Container::memory"}

\* The text read was formatted from a number with a suffix the reading knows.
WellFormed ==
    IF CpuRead
    THEN q_made.cpu.some /\ q_made.cpu.value.suffix \in { << >>, << "m" >> }
    ELSE /\ q_made.memory.some
         /\ q_made.memory.value.suffix \in
              { << >>, << "K", "i" >>, << "M", "i" >>, << "G", "i" >>, << "T", "i" >>,
                << "k" >>, << "M" >>, << "G" >>, << "T" >> }

\* C18: every reading of a cpu or memory quantity returns either a value or
\* the QuantityParseError, and it returns the error, never a value, when the
\* number is not valid or the suffix is not a recognized one.
QuantityParsingTotal ==
    q_pc = "done" =>
        /\ \/ q_out.res.ok /\ DOMAIN q_out.res = {"ok", "value"}
           \/ q_out.res = [ok |-> FALSE, err |-> "QuantityParseError"]
        /\ q_out.res.ok <=> WellFormed

\* A memory reading of a text whose suffix is not recognized.
QuantityParsingTotalWitness ==
    /\ q_pc = "done" /\ q_out.op = "Container::memory"
    /\ q_usage.memory = << "5", "X", "i" >>
    /\ ~q_out.res.ok

\* The multipliers, as byte counts.
Multiplier(suffix) ==
    CASE suffix = << >> -> << 1 >>
      [] suffix = << "K", "i" >> -> << 24, 1 >>
      [] suffix = << "M", "i" >> -> << 576, 48, 1 >>
      [] suffix = << "G", "i" >> -> << 824, 741, 73, 1 >>
      [] suffix = << "T", "i" >> -> << 776, 627, 511, 99, 1 >>
      [] suffix = << "k" >> -> << 0, 1 >>
      [] suffix = << "M" >> -> << 0, 0, 1 >>
      [] suffix = << "G" >> -> << 0, 0, 0, 1 >>
      [] suffix = << "T" >> -> << 0, 0, 0, 0, 1 >>

\* C19: a memory text formatted from a non-negative integer n and a suffix
\* among none, Ki, Mi, Gi, Ti, k, M, G, T reads as n times the suffix's
\* multiplier: 512Mi as 536870912, 2048 as 2048.
MemoryRoundTrip ==
    (q_pc = "done" /\ MemoryRead /\ WellFormed) =>
        /\ q_out.res = OkValue(Trim(MulSmall(Multiplier(q_made.memory.value.suffix),
                                             q_made.memory.value.n, 0)))
        /\ q_usage.memory = << "5", "1", "2", "M", "i" >> =>
             q_out.res.value = << 912, 870, 536 >>
        /\ q_usage.memory = << "2", "0", "4", "8" >> => q_out.res.value = << 48, 2 >>

\* 512M, a decimal suffix, read as 512000000.
MemoryRoundTripWitness ==
    /\ q_pc = "done" /\ q_out.op = "Usage::memory"
    /\ q_usage.memory = << "5", "1", "2", "M" >>
    /\ q_out.res = OkValue(<< 0, 0, 512 >>)

-----------------------------------------------------------------------------
(* Properties of the parse inside the node fetch (SpecFetch).              *)

\* C20 as stated: when one line of the text handed to the parser is
\* malformed, the parse and the node fetch return an error, and no Scrape
\* holding the well-formed lines comes back.
ParseFailsFast ==
    (/\ f_pc = "done"
     /\ f_trace.input.some
     /\ \E i \in DOMAIN f_trace.input.value : f_trace.input.value[i].line = "!") =>
        /\ ~f_trace.result.ok
        /\ "scrape" \notin DOMAIN f_trace.result

\* What the fetch does with such a text: it succeeds, and the Scrape holds
\* one sample for every sample line.
MalformedLinesPassedOver ==
    (f_pc = "done" /\ f_trace.input.some) =>
        /\ f_trace.result.ok
        /\ Len(f_trace.result.scrape.samples) =
             Cardinality({ i \in DOMAIN f_trace.input.value :
                             \E n \in Nodes, ep \in {"cadvisor", "resource"} :
                                f_trace.input.value[i].line = SampleLine(n, ep) })

\* C30: within one node fetch the cadvisor request comes first and the
\* resource request is made only after it succeeded: a failed cadvisor request
\* is the only request of the fetch, and the parser gets its lines only when
\* both requests succeeded.
RequestsShortCircuit ==
    f_pc = "done" =>
        /\ f_trace.requests[1] = "/api/v1/nodes/" \o f_node \o "/proxy/metrics/cadvisor"
        /\ IF CadvisorAnswer.ok
           THEN /\ Len(f_trace.requests) = 2
                /\ f_trace.requests[2] = "/api/v1/nodes/" \o f_node \o "/proxy/metrics/resource"
           ELSE Len(f_trace.requests) = 1
        /\ f_trace.input.some <=> (CadvisorAnswer.ok /\ ResourceAnswer.ok)

\* The cadvisor request failed while the resource endpoint would have answered.
RequestsShortCircuitWitness ==
    /\ f_pc = "done" /\ ~CadvisorAnswer.ok /\ ResourceAnswer.ok
    /\ f_trace.requests = << "/api/v1/nodes/" \o f_node \o "/proxy/metrics/cadvisor" >>
    /\ ~f_trace.result.ok

-----------------------------------------------------------------------------
(* Properties of the server's list handlers and discovery (SpecHttp).      *)

NodesPath == h_req.path = << "apis", "metrics.k8s.io", "v1beta1", "nodes" >>
AllPodsPath == h_req.path = << "apis", "metrics.k8s.io", "v1beta1", "pods" >>
NamespacedPodsPath ==
    /\ Len(h_req.path) = 6
    /\ SubSeq(h_req.path, 1, 4) = << "apis", "metrics.k8s.io", "v1beta1", "namespaces" >>
    /\ h_req.path[6] = "pods"

\* The pods the list call of the request returns.
ListedPods ==
    IF AllPodsPath THEN h_collector.client.value.pods.items
    ELSE SelectSeq(h_collector.client.value.pods.items,
                   LAMBDA p : p.namespace = Some(h_req.path[5]))

PodPreserved(p, pm) ==
    /\ pm.metadata.name = p.name
    /\ IF p.spec.some
       THEN /\ Len(pm.containers) = Len(p.spec.value.containers)
            /\ \A k \in DOMAIN pm.containers :
                 pm.containers[k].name = p.spec.value.containers[k]
       ELSE pm.containers = << >>

\* C27: connected to a cluster, the node handler answers one NodeMetrics per
\* listed node, in list order and with the node's name, and the pod handlers
\* one PodMetrics per listed pod with one Container per container of the
\* pod's spec, in spec order, and none for a pod without a spec; when the
\* list call fails the handler answers an error and no list.
LiveListingPreserved ==
    (h_pc = "done" /\ h_req.method = "GET" /\ h_collector.client.some) =>
        /\ NodesPath =>
             LET l == h_collector.client.value.nodes
             IN IF l.ok
                THEN /\ h_resp.status = 200
                     /\ Len(h_resp.body.items) = Len(l.items)
                     /\ \A i \in DOMAIN l.items :
                          h_resp.body.items[i].metadata.name = l.items[i].name
                ELSE h_resp.status = 500 /\ h_resp.content_type # "application/json"
        /\ (AllPodsPath \/ NamespacedPodsPath) =>
             IF h_collector.client.value.pods.ok
             THEN /\ h_resp.status = 200
                  /\ Len(h_resp.body.items) = Len(ListedPods)
                  /\ \A i \in DOMAIN ListedPods :
                       PodPreserved(ListedPods[i], h_resp.body.items[i])
             ELSE h_resp.status = 500 /\ h_resp.content_type # "application/json"

\* All pods were asked for and the cluster listed a pod with two containers
\* after a pod without a spec.
LiveListingPreservedWitness ==
    /\ h_pc = "done" /\ h_req.method = "GET" /\ AllPodsPath
    /\ h_collector.client.some /\ h_collector.client.value.pods.ok
    /\ Len(h_collector.client.value.pods.items) = 2
    /\ ~h_collector.client.value.pods.items[1].spec.some
    /\ Len(h_resp.body.items[2].containers) = 2

\* The node list call failed.
LiveListingFailedWitness ==
    /\ h_pc = "done" /\ h_req.method = "GET" /\ NodesPath
    /\ h_collector.client.some /\ ~h_collector.client.value.nodes.ok
    /\ h_resp.status = 500

\* C29: the discovery document the server answers at its API root names the
\* group version and the resources of KubeApi::metrics_api_resource_list: the
\* same resources in the same order, each with the same name, namespaced
\* flag, kind and verbs.
DiscoveryMatchesResourceList ==
    (h_pc = "done" /\ h_req.method = "GET"
        /\ h_req.path = << "apis", "metrics.k8s.io", "v1beta1" >>) =>
        LET doc == h_resp.body
            list == metrics_api_resource_list
        IN /\ h_resp.status = 200
           /\ doc.groupVersion = "metrics.k8s.io/v1beta1"
           /\ doc.groupVersion = list.group_version
           /\ Len(doc.resources) = Len(list.resources)
           /\ \A i \in DOMAIN list.resources :
                /\ doc.resources[i].name = list.resources[i].name
                /\ doc.resources[i].namespaced = list.resources[i].namespaced
                /\ doc.resources[i].kind = list.resources[i].kind
                /\ doc.resources[i].verbs = list.resources[i].verbs

\* The discovery document has been served.
DiscoveryMatchesResourceListWitness ==
    /\ h_pc = "done" /\ h_req.method = "GET"
    /\ h_req.path = << "apis", "metrics.k8s.io", "v1beta1" >>
    /\ Len(h_resp.body.resources) = 2

-----------------------------------------------------------------------------
(* Properties of the two descriptor builders of PodMetrics (SpecApi).      *)

\* C28 as stated: PodMetricsExt::api_resource() and APIResourceExt's
\* api_resource() for PodMetrics return the same APIResource: the same name,
\* namespaced flag, kind, group, version and verbs.
DescriptorBuildersAgree ==
    a_kind = "PodMetrics" =>
        \A i \in CallsOf("PodMetricsExt::api_resource"), j \in CallsOf("api_resource") :
            LET x == a_calls[i].out
                y == a_calls[j].out
            IN /\ x.name = y.name /\ x.namespaced = y.namespaced /\ x.kind = y.kind
               /\ x.group = y.group /\ x.version = y.version /\ x.verbs = y.verbs

\* What the two do share: name, namespaced flag and kind.
DescriptorBuildersShare ==
    a_kind = "PodMetrics" =>
        \A i \in CallsOf("PodMetricsExt::api_resource"), j \in CallsOf("api_resource") :
            /\ a_calls[i].out.name = a_calls[j].out.name
            /\ a_calls[i].out.namespaced = a_calls[j].out.namespaced
            /\ a_calls[i].out.kind = a_calls[j].out.kind

-----------------------------------------------------------------------------
(* Properties of the MetricValue constructors (SpecMetricValue).           *)

\* C21: MetricValue::<M>::new(name, namespace, object) yields metadata with
\* that name and namespace, a described object with the object's name, the
\* namespace, M::API_VERSION and M::KIND, a metric of that name without
\* selector, window_seconds 0 and the default Quantity; an empty input is
\* stored as Some("") and never left absent.
NewFillsValue ==
    (mv_pc = "done" /\ mv_out.op = "new") =>
        LET v == mv_out.value
        IN /\ v.metadata.name = Some(mv_in.name)
           /\ v.metadata.namespace = Some(mv_in.namespace)
           /\ v.described_object.name = Some(mv_in.object_name)
           /\ v.described_object.namespace = Some(mv_in.namespace)
           /\ v.described_object.api_version = Some(API_VERSION(mv_in.M))
           /\ v.described_object.kind = Some(Resource(mv_in.M).KIND)
           /\ v.metric = [name |-> mv_in.name, selector |-> None]
           /\ v.window_seconds = 0
           /\ v.value = ""
           /\ v.metadata.name.some /\ v.metadata.namespace.some
           /\ v.described_object.name.some /\ v.described_object.namespace.some

NewFillsValueWitness ==
    /\ mv_pc = "done" /\ mv_out.op = "new"
    /\ mv_in.name = "" /\ mv_in.namespace = "" /\ mv_in.object_name = ""
    /\ mv_out.value.metadata.name = Some("")
    /\ mv_out.value.described_object.kind = Some("Pod")

\* C22: with_object(name, o) equals with_object_ref(name, object_ref(o)): the
\* described object carries o's name, namespace, uid and resource_version
\* with M::API_VERSION and M::KIND, metadata.name and metric.name are the
\* name, and metadata.namespace is o's namespace, None when o has none.
WithObjectIsWithObjectRef ==
    (mv_pc = "done" /\ mv_out.op = "with_object") =>
        LET v == mv_out.value
            o == mv_in.object.metadata
        IN /\ v = with_object_ref(mv_in.M, mv_in.name, object_ref(mv_in.M, mv_in.object))
           /\ v.described_object.name = o.name
           /\ v.described_object.namespace = o.namespace
           /\ v.described_object.uid = o.uid
           /\ v.described_object.resource_version = o.resource_version
           /\ v.described_object.api_version = Some(API_VERSION(mv_in.M))
           /\ v.described_object.kind = Some(Resource(mv_in.M).KIND)
           /\ v.metadata.name = Some(mv_in.name)
           /\ v.metric.name = mv_in.name
           /\ v.metadata.namespace = o.namespace
           /\ (~o.namespace.some => v.metadata.namespace = None)

WithObjectIsWithObjectRefWitness ==
    /\ mv_pc = "done" /\ mv_out.op = "with_object"
    /\ mv_in.object.metadata.namespace = None
    /\ mv_in.object.metadata.uid = Some("12345")
    /\ mv_out.value.metadata.namespace = None
    /\ mv_out.value.described_object.uid = Some("12345")

-----------------------------------------------------------------------------
(* Properties of the store's size and guard and of the fetches of a cycle  *)
(* (Spec, SpecLive).                                                       *)

StoreKeepsEveryEntry ==
    lock # WriterHolds => scrapes = log

\* C24: the store is held for a single read or a single commit only, never
\* while a network call (the node list or a kubelet fetch) is in flight; a
\* handler's read is never kept waiting by a slow fetch.
LockNotHeldAcrossNetwork ==
    /\ lock = WriterHolds <=> cyc = "committing"
    /\ \A r \in Readers : lock = ReaderHolds(r) => Reading(r)
    /\ cyc \in {"listing", "fetching"} =>
        /\ lock # WriterHolds
        /\ (\A r \in Readers : ~Reading(r)) => can_read(lock)

\* A reader is answered the committed entry while a fetch of the next cycle
\* waits for a kubelet that hangs.
LockNotHeldAcrossNetworkWitness ==
    /\ cyc = "fetching" /\ Len(log) = 1
    /\ \E i \in DOMAIN replies : replies[i].hung /\ ~replies[i].done
    /\ \E r \in Readers : Reading(r) /\ lock = ReaderHolds(r) /\ rval[r] = Some(log[1])

\* C26: within one cycle each listed node is fetched at most once: a node
\* whose fetch failed is not asked again in that cycle and is absent from the
\* cycle's entry.
OneFetchPerNode ==
    /\ \A i \in DOMAIN replies :
         /\ replies[i].n <= 1
         /\ replies[i].done => replies[i].n = 1
    /\ outcome = "committed" =>
         \A i \in DOMAIN nodeList :
             ~Fetched(i) => SamplesOfNode(LastCommitted.value, nodeList[i]) = << >>

\* Node n1 failed in the first cycle, whose entry has n2's data and not
\* n1's; the second cycle asked n1 again, once, and was answered.
OneFetchPerNodeWitness ==
    /\ cycles = 2 /\ Len(preStore) = 1
    /\ SamplesOfNode(preStore[1], "n1") = << >>
    /\ SamplesOfNode(preStore[1], "n2") # << >>
    /\ \E i \in DOMAIN nodeList :
         nodeList[i] = "n1" /\ replies[i].n = 1 /\ Fetched(i)

TimedOut(i) == replies[i].hung /\ replies[i].done

\* C25: every scrape cycle finishes, also when a kubelet never answers: the
\* timeout makes the hanging fetch a per-node failure, and the cycle commits
\* the data of the other nodes.
CycleFinishes ==
    /\ (cyc # "idle") ~> (cyc = "idle")
    /\ (cyc = "fetching" /\ \E i \in DOMAIN replies : replies[i].hung)
           ~> (cyc = "idle" /\ outcome = "committed")
    /\ [](\A i \in DOMAIN replies : TimedOut(i) => ~Fetched(i))
    /\ [](outcome = "committed" => buffer.samples = InListOrder(1))

\* A cycle committed the data of n1 and n3 after the fetch of n2 timed out.
CycleFinishesWitness ==
    /\ outcome = "committed" /\ cyc = "idle"
    /\ nodeList = << "n1", "n2", "n3" >>
    /\ Fetched(1) /\ TimedOut(2) /\ Fetched(3)
    /\ Len(LastCommitted.value.samples) = 4

====
